---- MODULE Spec2Model ----
(***************************************************************************)
(* Reliable file transfer over UDP (package rftp): the frame codec, the    *)
(* receiver loop, the Stop-and-Wait sender and the Go-Back-N sender,       *)
(* joined by a datagram network.                                           *)
(*                                                                         *)
(* Each sender and the receiver is single-threaded and suspends only in    *)
(* UdpEndpoint.recvfrom, so one action is one pass from the return of      *)
(* recvfrom (a datagram or TimeoutError) to the next call of recvfrom.     *)
(*                                                                         *)
(* Two networks are modelled.  In Spec the network is lossy: a datagram    *)
(* handed to sendto joins the set of datagrams the network may deliver     *)
(* any number of times, in any order, damaged, or never.  In SpecLossless  *)
(* the network is a FIFO queue per direction that delivers every datagram  *)
(* exactly once, and a receive call expires only when nothing can arrive.  *)
(*                                                                         *)
(* A pass of a loop takes no time; time passes while the sender waits in   *)
(* recvfrom.  In Spec and SpecLossless a datagram arrives as soon as the   *)
(* sender waits or not before the receive call expires; in SpecTimed it    *)
(* can arrive at any tick of the wait.                                     *)
(***************************************************************************)
EXTENDS Integers, Sequences, FiniteSets, TLC

VARIABLES
    net,            \* "lossy" or "fifo": which network joins the endpoints
    proto,          \* "sw" or "gbn": the sender class constructed
    window_size,    \* GoBackNSender.window_size
    input,          \* the bytes of the sender's file self.f
    fpos,           \* read position of self.f
    spc,            \* sender: "init", "wait" (in recvfrom), "returned", "raised"
    seq,            \* StopAndWaitSender.run: seq
    frame,          \* StopAndWaitSender.run: frame
    base,           \* GoBackNSender.run: base
    next_seq,       \* GoBackNSender.run: next_seq
    buffer,         \* GoBackNSender.run: buffer (seq -> Frame)
    timer_start,    \* GoBackNSender.run: timer_start (None or a reading of the clock)
    eof_scheduled,  \* GoBackNSender.run: eof_scheduled
    metrics,        \* the sender's Metrics: packets_sent, timeouts, retransmits
    rpc,            \* receiver: "RECEIVING", "DONE" (loop left by break), "RAISED"
    expected,       \* Receiver.run: expected
    out,            \* bytes written to Receiver.out
    dnet,           \* lossy network, datagrams sent towards the receiver
    anet,           \* lossy network, datagrams sent towards the sender
    dq,             \* FIFO network, queue towards the receiver
    aq,             \* FIFO network, queue towards the sender
    written,        \* history: sequence numbers whose payload was written, in order
    rlast,          \* history: if the last step was the receiver's, the datagram that arrived and what it caused
    slast,          \* history: if the last step was the sender's, what began it and what it sent
    tx_count,       \* history: number of sendto calls of the sender
    fin_seqs,       \* history: sequence numbers the sender transmitted with FIN set
    clock,          \* sender: time since timer_start was read and since recvfrom was called
    codec           \* a Frame, the datagram made of it and what from_bytes made of that

vars == <<net, proto, window_size, input, fpos, spc, seq, frame, base, next_seq,
          buffer, timer_start, eof_scheduled, metrics, rpc, expected, out,
          dnet, anet, dq, aq, written, rlast, slast, tx_count, fin_seqs, clock,
          codec>>

----------------------------------------------------------------------------
(* Bounds of the model *)

\* longest input, in bytes, of a transfer over the lossy network
MaxLen == 4
\* largest window_size of a transfer over the lossy network
MaxWindow == 3
\* segment_size of every sender (DEFAULT_SEGMENT_SIZE scaled down)
SegmentSize == 2
\* counters of the lossy runs are tracked up to this value
MaxCount == 2
\* longest input, in segments, of a transfer over the FIFO network
MaxSegmentsFifo == 10
\* largest window_size of a transfer over the FIFO network
MaxWindowFifo == 4
\* counters of the FIFO runs are tracked up to this value
MaxTx == 14
\* timeout_ms of every sender and of its endpoint, in ticks of the clock
\* (DEFAULT_TIMEOUT_MS scaled down)
TimeoutMs == 2
\* the time since timer_start is tracked up to TimeoutMs + MaxLate ticks
MaxLate == 1
\* longest input, in bytes, of a timed transfer
MaxLenTimed == 2
\* largest window_size of a timed transfer
MaxWindowTimed == 2

----------------------------------------------------------------------------
(* constants.py *)

SHA1_LEN == 20
VERSION == 1
DATA == 0
ACK == 1
FLAG_FIN == 1
\* "!BBHII": the widths in bytes of version, kind, flags, seq and ack, each
\* an unsigned integer in network byte order
HEADER_FORMAT == <<1, 1, 2, 4, 4>>
\* struct.calcsize(HEADER_FORMAT)
HEADER_LEN == 12

\* Python's None, for timer_start
None == -1
\* readings of time.monotonic() kept in timer_start, told apart by when
\* they were taken: Now in the pass that is running, Earlier before the
\* sender last waited in recvfrom
Now == 0
Earlier == 1

\* the reading t as the pass that follows a wait in recvfrom finds it
Aged(t) == IF t = Now THEN Earlier ELSE t

Min(a, b) == IF a < b THEN a ELSE b

Range(s) == {s[i] : i \in 1..Len(s)}

----------------------------------------------------------------------------
(* packet.py *)

\* Frame.fin
fin(fr) == (fr.flags % 2) = FLAG_FIN

\* Frame.data
data(s, payload, f) ==
    [version |-> VERSION, kind |-> DATA, flags |-> IF f THEN FLAG_FIN ELSE 0,
     seq |-> s, ack |-> 0, payload |-> payload]

\* Frame.make_ack
make_ack(ack_num) ==
    [version |-> VERSION, kind |-> ACK, flags |-> 0, seq |-> 0, ack |-> ack_num,
     payload |-> <<>>]

\* hashlib.sha1(header + payload).digest(): an ideal hash, one digest per
\* byte string; the header has a fixed length, so the pair stands for the
\* concatenation
sha1(header, payload) == <<header, payload>>

\* the w bytes (1, 2 or 4) of the unsigned integer x, most significant
\* first
BigEndian(x, w) ==
    IF w = 1 THEN <<x % 256>>
    ELSE IF w = 2 THEN <<(x \div 256) % 256, x % 256>>
    ELSE <<(x \div 16777216) % 256, (x \div 65536) % 256, (x \div 256) % 256, x % 256>>

\* the unsigned integer of the bytes from..to (1, 2 or 4 of them) of bs,
\* most significant first
FromBigEndian(bs, from, to) ==
    IF to = from THEN bs[from]
    ELSE IF to = from + 1 THEN bs[from] * 256 + bs[to]
    ELSE bs[from] * 16777216 + bs[from + 1] * 65536 + bs[from + 2] * 256 + bs[to]

\* struct.pack(HEADER_FORMAT, ...) of the five values vs, each within
\* the range of its field
pack(vs) ==
    BigEndian(vs[1], HEADER_FORMAT[1]) \o BigEndian(vs[2], HEADER_FORMAT[2])
    \o BigEndian(vs[3], HEADER_FORMAT[3]) \o BigEndian(vs[4], HEADER_FORMAT[4])
    \o BigEndian(vs[5], HEADER_FORMAT[5])

\* struct.unpack(HEADER_FORMAT, header): the field in the bytes from..to
unpack_LittleEndian(header, from, to) ==
    FromBigEndian([i \in 1..HEADER_LEN |-> header[HEADER_LEN + 1 - i]],
                  HEADER_LEN + 1 - to, HEADER_LEN + 1 - from)
unpack(header, from, to) == FromBigEndian(header, from, to)

\* Frame.to_bytes: header + checksum + payload; a datagram is kept as its
\* length and the three slices from_bytes takes of it
to_bytes(fr) ==
    LET header == pack(<<fr.version, fr.kind, fr.flags, fr.seq, fr.ack>>)
    IN  [len |-> HEADER_LEN + SHA1_LEN + Len(fr.payload),
         header |-> header,
         checksum |-> sha1(header, fr.payload),
         payload |-> fr.payload]

\* Frame.from_bytes raises ValueError
Malformed_AnyVersion(raw) ==
    \/ raw.len < HEADER_LEN + SHA1_LEN
    \/ sha1(raw.header, raw.payload) # raw.checksum
    \/ unpack(raw.header, 2, 2) \notin {DATA, ACK}
Malformed(raw) ==
    \/ raw.len < HEADER_LEN + SHA1_LEN
    \/ sha1(raw.header, raw.payload) # raw.checksum
    \/ unpack(raw.header, 1, 1) # VERSION
    \/ unpack(raw.header, 2, 2) \notin {DATA, ACK}

\* Frame.from_bytes returns a Frame
from_bytes(raw) ==
    [version |-> unpack(raw.header, 1, 1), kind |-> unpack(raw.header, 2, 2),
     flags |-> unpack(raw.header, 3, 4), seq |-> unpack(raw.header, 5, 8),
     ack |-> unpack(raw.header, 9, 12), payload |-> raw.payload]

----------------------------------------------------------------------------
(* The sender's file and its counters *)

\* self.f.read(self.segment_size) at read position pos
read(pos) == SubSeq(input, pos + 1, Min(pos + SegmentSize, Len(input)))

\* the values up to which this run tracks its counters
CountCap == IF net = "fifo" THEN MaxTx ELSE MaxCount

\* x += k on a counter; counters are written and never read by the
\* protocol, so they stop at CountCap instead of stopping the run
Bump(x, k) == Min(x + k, CountCap)

\* the FIN sequence numbers among the frames of one step's sendto calls
FinSeqsOf(sent) == {from_bytes(sent[i]).seq : i \in {j \in 1..Len(sent) : fin(from_bytes(sent[j]))}}

----------------------------------------------------------------------------
(* net.py: the two networks *)

\* the place of a datagram in a history variable when there is none
NoDatagram == [len |-> 0, header |-> <<>>, checksum |-> <<>>, payload |-> <<>>]

\* slast when the last step was not the sender's; n counts the sender's
\* steps modulo 2
NoStep(n) == [ev |-> "none", ack |-> None, sent |-> <<>>, nth |-> n]

\* what began a step of the sender other than a datagram: "start" for
\* the call of run(), "timeout" for TimeoutError
Woke(ev) == [ev |-> ev, ack |-> None]

\* what began a step of the sender when recvfrom returned raw: a datagram
\* that is "malformed", a frame that is "nonack", or an "ack" and its number
Got(raw) ==
    IF Malformed(raw) THEN [ev |-> "malformed", ack |-> None]
    ELSE IF from_bytes(raw).kind # ACK THEN [ev |-> "nonack", ack |-> None]
    ELSE [ev |-> "ack", ack |-> from_bytes(raw).ack]

\* the sender's self.udp.sendto calls of one step, in call order; how
\* tells what began the step
SenderSends(how, sent) ==
    \E h \in {how} : \E s \in {sent} :
       /\ slast' = [ev |-> h.ev, ack |-> h.ack, sent |-> s, nth |-> 1 - slast.nth]
       /\ dnet' = IF net = "lossy" THEN dnet \cup Range(s) ELSE dnet
       /\ dq' = IF net = "fifo" /\ rpc = "RECEIVING" THEN dq \o s ELSE dq
       /\ tx_count' = Bump(tx_count, Len(s))
       /\ fin_seqs' = fin_seqs \cup FinSeqsOf(s)

\* the receiver's self.udp.sendto calls of one step, in call order
ReceiverSends(sent) ==
    /\ anet' = IF net = "lossy" THEN anet \cup Range(sent) ELSE anet
    /\ aq' = IF net = "fifo" /\ spc = "wait" THEN aq \o sent ELSE aq

\* the byte b with its bit i (0 the lowest) flipped
FlipBit(b, i) == IF (b \div (2 ^ i)) % 2 = 0 THEN b + 2 ^ i ELSE b - 2 ^ i

\* the bytes bs with bit i of the byte at position p flipped
FlipAt(bs, p, i) == [bs EXCEPT ![p] = FlipBit(@, i)]

\* the datagram raw cut to its first k bytes
Cut(raw, k) ==
    IF k >= HEADER_LEN + SHA1_LEN
    THEN [raw EXCEPT !.len = k, !.payload = SubSeq(@, 1, k - HEADER_LEN - SHA1_LEN)]
    ELSE [raw EXCEPT !.len = k]

\* what damage in transit makes of a datagram on the lossy network: the
\* lowest bit of the first payload byte, of the seq field or of the ack
\* field flipped, or the datagram cut to its header
Mangle(raw) ==
    { IF raw.payload = <<>> THEN raw ELSE [raw EXCEPT !.payload = FlipAt(@, 1, 0)],
      [raw EXCEPT !.header = FlipAt(@, 8, 0)],
      [raw EXCEPT !.header = FlipAt(@, 12, 0)],
      Cut(raw, HEADER_LEN) } \ {raw}

\* datagrams another program sends to the endpoint's port: frames with a
\* valid digest, one of another version and one of an unknown kind
Foreign ==
    { to_bytes([data(0, <<>>, FALSE) EXCEPT !.version = VERSION + 1]),
      to_bytes([data(0, <<>>, FALSE) EXCEPT !.kind = 2]) }

\* the datagrams the lossy network can hand to an endpoint listening on
\* the direction that carries the set mine: any datagram sent that way,
\* intact or damaged, any stray datagram of the other direction, and the
\* foreign ones
Arrivals(mine, other) ==
    mine \cup UNION {Mangle(m) : m \in mine} \cup other \cup Foreign

----------------------------------------------------------------------------
(* receiver.py *)

\* lines 44-50: the datagram raw decodes to a frame of kind DATA, so the
\* pass goes on past the two continue statements
IsData_AnyKind(raw) == ~Malformed(raw)
IsData(raw) == ~Malformed(raw) /\ from_bytes(raw).kind = DATA

\* line 52: the frame is the one the receiver waits for
InOrder_Late(fr) == fr.seq >= expected
InOrder_Early(fr) == fr.seq <= expected
InOrder(fr) == fr.seq = expected

\* line 57: the ACK for the frame fr, expected being before when the
\* frame arrived and after once it was handled
AckFor_Ahead(fr, before, after) == make_ack(after + 1)
AckFor_Before(fr, before, after) == make_ack(before)
AckFor_Selective(fr, before, after) == make_ack(fr.seq + 1)
AckFor(fr, before, after) == make_ack(after)

\* line 60: the frame ends the loop, expected being after once it was handled
Leaves_Never(fr, after) == FALSE
Leaves_AnyFin(fr, after) == fin(fr)
Leaves_AnyAccepted(fr, after) == fr.seq < after
Leaves(fr, after) == fin(fr) /\ fr.seq < after

\* rlast when the last step was not the arrival of a datagram at the
\* receiver
NoArrival ==
    [raw |-> NoDatagram, before |-> 0, read |-> FALSE, wrote |-> FALSE, sent |-> <<>>]

\* the next value of rlast: the datagram raw arrived with expected being
\* before, the loop read it or not, wrote its payload or not, and sent
\* the datagrams sent
Arrival(raw, isRead, wrote, sent) ==
    [raw |-> raw, before |-> expected, read |-> isRead, wrote |-> wrote, sent |-> sent]

\* Receiver.run, one pass of the loop for the datagram raw (lines 43-61)
ReceiverHandle(raw) ==
    \E fr \in {from_bytes(raw)} : \E isData \in {IsData(raw)} :
    LET accept == isData /\ InOrder(fr)
        expected1 == IF accept THEN expected + 1 ELSE expected
    IN  \E sent \in {IF isData THEN <<to_bytes(AckFor(fr, expected, expected1))>> ELSE <<>>} :
        /\ rpc = "RECEIVING"
        /\ out' = IF accept THEN out \o fr.payload ELSE out
        /\ expected' = expected1
        /\ ReceiverSends(sent)
        /\ rpc' = IF isData /\ Leaves(fr, expected1) THEN "DONE" ELSE "RECEIVING"
        /\ written' = IF accept THEN Append(written, fr.seq) ELSE written
        /\ rlast' = Arrival(raw, TRUE, accept, sent)

\* the receiver's frame of every step
ReceiverFrame ==
    /\ UNCHANGED <<net, proto, window_size, input, fpos, spc, seq, frame, base,
                   next_seq, buffer, timer_start, eof_scheduled, metrics, dnet, dq,
                   tx_count, fin_seqs, clock, codec>>
    /\ slast' = NoStep(slast.nth)

\* a datagram arrives from the lossy network and the loop handles it
ReceiverRecv ==
    /\ net = "lossy"
    /\ \E raw \in Arrivals(dnet, anet) : ReceiverHandle(raw)
    /\ ReceiverFrame

\* the next datagram of the FIFO network arrives and the loop handles it
ReceiverRecvFifo ==
    /\ net = "fifo"
    /\ dq # <<>>
    /\ ReceiverHandle(Head(dq))
    /\ dq' = Tail(dq)
    /\ UNCHANGED <<net, proto, window_size, input, fpos, spc, seq, frame, base,
                   next_seq, buffer, timer_start, eof_scheduled, metrics, dnet,
                   tx_count, fin_seqs, clock, codec>>
    /\ slast' = NoStep(slast.nth)

\* self.udp.recvfrom() raises TimeoutError: the callers build the listening
\* endpoint with timeout_ms > 0 and Receiver.run has no handler for it
ReceiverTimeout ==
    /\ net = "lossy"
    /\ rpc = "RECEIVING"
    /\ rpc' = "RAISED"
    /\ rlast' = NoArrival
    /\ UNCHANGED <<out, expected, anet, aq, written>>
    /\ ReceiverFrame

\* a datagram arrives after Receiver.run has ended: nothing reads it
ArriveAfterEnd ==
    /\ net = "lossy"
    /\ rpc # "RECEIVING"
    /\ \E raw \in dnet :
          rlast' = Arrival(raw, FALSE, FALSE, <<>>)
    /\ UNCHANGED <<out, expected, anet, aq, written, rpc>>
    /\ ReceiverFrame

----------------------------------------------------------------------------
(* sender.py: GoBackNSender *)

\* load_frame(seq) with the file at w.fpos (lines 81-92)
load_frame(s, w) ==
    IF s \in DOMAIN w.buffer
    THEN [fr |-> w.buffer[s], buffer |-> w.buffer, fpos |-> w.fpos, eof |-> w.eof]
    ELSE LET chunk == read(w.fpos)
             fr == data(s, chunk, chunk = <<>>)
         IN  [fr |-> fr,
              buffer |-> (s :> fr) @@ w.buffer,
              fpos |-> w.fpos + Len(chunk),
              eof |-> w.eof \/ (chunk = <<>>)]

\* line 95: the window has room for another frame
WindowOpen_OneMore(w) == w.next_seq <= w.base + window_size
WindowOpen(w) == w.next_seq < w.base + window_size

\* lines 100-101: timer_start after a frame was sent, t being its value
\* before
StartTimer_Never(t) == t
StartTimer(t) == IF t = None THEN Now ELSE t

\* one pass of the body of the fill-window loop (lines 96-102) on the
\* sender state w; w.sent collects the datagrams handed to sendto
FillOne(w) ==
    LET lf == load_frame(w.next_seq, w)
    IN  [w EXCEPT !.buffer = lf.buffer,
                  !.fpos = lf.fpos,
                  !.eof = lf.eof,
                  !.packets_sent = Bump(@, 1),
                  !.sent = Append(@, to_bytes(lf.fr)),
                  !.timer = StartTimer(@),
                  !.next_seq = @ + 1]

\* line 103: the frame the pass has just sent carries FIN
SentFin(w) == fin(from_bytes(w.sent[Len(w.sent)]))

\* the fill-window loop (lines 95-104) on the sender state w: it ends
\* when the window is full or after the pass that sent a frame with FIN
\* (the state after a pass is bound to w1 so that it is computed once)
RECURSIVE FillWindow(_)
FillWindow(w) ==
    IF WindowOpen(w)
    THEN CHOOSE r \in {IF SentFin(w1) THEN w1 ELSE FillWindow(w1) : w1 \in {FillOne(w)}} : TRUE
    ELSE w

\* the state of GoBackNSender.run as one record
GbnState ==
    [base |-> base, next_seq |-> next_seq, buffer |-> buffer, fpos |-> fpos,
     eof |-> eof_scheduled, timer |-> Aged(timer_start),
     elapsed |-> clock.elapsed,
     packets_sent |-> metrics.packets_sent, sent |-> <<>>]

\* the sender goes back to recvfrom in state w, having changed the
\* counters to m, in a step that began as how tells; w.elapsed is the
\* time since timer_start unless the pass has read the clock anew
GbnWait(w, m, how) ==
    /\ spc' = "wait"
    /\ base' = w.base
    /\ next_seq' = w.next_seq
    /\ buffer' = w.buffer
    /\ fpos' = w.fpos
    /\ eof_scheduled' = w.eof
    /\ timer_start' = w.timer
    /\ metrics' = [m EXCEPT !.packets_sent = w.packets_sent]
    /\ clock' = [elapsed |-> IF w.timer = Earlier THEN w.elapsed ELSE 0, waited |-> 0]
    /\ SenderSends(how, w.sent)

\* GoBackNSender.run up to its first recvfrom (lines 74-104)
GbnStart ==
    /\ proto = "gbn"
    /\ spc = "init"
    /\ \E w \in {FillWindow(GbnState)} : GbnWait(w, metrics, Woke("start"))

\* line 110 when recvfrom raises TimeoutError: the receive call has
\* lasted timeout_ms, of which clock.waited had passed
ElapsedAtExpiry == Min(clock.elapsed + (TimeoutMs - clock.waited), TimeoutMs + MaxLate)

\* lines 114-115: the datagrams of the retransmission, in call order, buf
\* being the buffer, b base and n next_seq
Resend_Descending(buf, b, n) == [i \in 1..(n - b) |-> to_bytes(buf[n - i])]
Resend(buf, b, n) == [i \in 1..(n - b) |-> to_bytes(buf[b + i - 1])]

\* recvfrom raised TimeoutError (lines 108-117), then the loop continues
GbnOnTimeout ==
    LET elapsed_ms == ElapsedAtExpiry
        fire == timer_start # None /\ elapsed_ms >= TimeoutMs
        resend == Resend(buffer, base, next_seq)
        m == IF fire
             THEN [metrics EXCEPT !.timeouts = Bump(@, 1),
                                  !.retransmits = Bump(@, next_seq - base)]
             ELSE metrics
        w == [GbnState EXCEPT !.sent = IF fire THEN resend ELSE <<>>,
                              !.timer = IF fire THEN Now ELSE @,
                              !.elapsed = elapsed_ms]
    IN  IF fire /\ \E s \in base..(next_seq - 1) : s \notin DOMAIN buffer
        THEN \* buffer[s] raises KeyError
             /\ spc' = "raised"
             /\ UNCHANGED <<base, next_seq, buffer, fpos, eof_scheduled,
                            timer_start, metrics, clock>>
             /\ SenderSends(Woke("timeout"), <<>>)
        ELSE \E w0 \in {w} : \E w1 \in {FillWindow(w0)} : GbnWait(w1, m, Woke("timeout"))

\* lines 129-131: the buffer buf without its entries older than b
Evict_None(buf, b) == buf
Evict_UpTo(buf, b) == [k \in {j \in DOMAIN buf : ~(j <= b)} |-> buf[k]]
Evict(buf, b) == [k \in {j \in DOMAIN buf : ~(j < b)} |-> buf[k]]

\* line 134: the loop ends, eof being eof_scheduled, b base and n next_seq
GbnDone_NoEof(eof, b, n) == b = n
GbnDone(eof, b, n) == eof /\ b = n

\* recvfrom returned the datagram raw (lines 119-135), then the loop
\* continues unless it breaks
GbnOnDatagram(raw) ==
    \E ack \in {from_bytes(raw)} : \E isAck \in {~Malformed(raw) /\ ack.kind = ACK} :
    LET advance == isAck /\ ack.ack > base
        base1 == IF advance THEN ack.ack ELSE base
        w == IF advance
             THEN [GbnState EXCEPT
                      !.base = base1,
                      !.buffer = Evict(buffer, base1),
                      !.timer = IF base1 # next_seq THEN Now ELSE None]
             ELSE GbnState
    IN  IF isAck /\ GbnDone(eof_scheduled, base1, next_seq)
        THEN /\ spc' = "returned"
             /\ base' = w.base
             /\ buffer' = w.buffer
             /\ timer_start' = w.timer
             /\ UNCHANGED <<next_seq, fpos, eof_scheduled, metrics, clock>>
             /\ SenderSends(Got(raw), <<>>)
        ELSE \E w0 \in {w} : \E w1 \in {FillWindow(w0)} : GbnWait(w1, metrics, Got(raw))

----------------------------------------------------------------------------
(* sender.py: StopAndWaitSender *)

\* lines 26-29 with the file at fpos: the frame of sequence number s
SwNextFrame_FinOnShort(s) == data(s, read(fpos), Len(read(fpos)) < SegmentSize)
SwNextFrame(s) == data(s, read(fpos), read(fpos) = <<>>)

\* lines 32-34 and back to recvfrom: transmit fr, having changed the
\* counters to m, in a step that began as how tells
SwTransmit(fr, m, how) ==
    /\ spc' = "wait"
    /\ frame' = fr
    /\ metrics' = [m EXCEPT !.packets_sent = Bump(@, 1)]
    /\ clock' = [clock EXCEPT !.waited = 0]
    /\ SenderSends(how, <<to_bytes(fr)>>)

\* StopAndWaitSender.run up to its first recvfrom (lines 22-37)
SwStart ==
    /\ proto = "sw"
    /\ spc = "init"
    /\ SwTransmit(SwNextFrame(seq), metrics, Woke("start"))
    /\ fpos' = fpos + Len(read(fpos))
    /\ UNCHANGED seq

\* recvfrom raised TimeoutError (lines 38-41)
SwOnTimeout ==
    /\ SwTransmit(frame, [metrics EXCEPT !.timeouts = Bump(@, 1),
                                         !.retransmits = Bump(@, 1)],
                  Woke("timeout"))
    /\ UNCHANGED <<seq, fpos>>

\* line 51: the ACK frame ack acknowledges the frame of sequence number seq
SwAcked_AlsoStale(ack) == ack.ack >= seq
SwAcked(ack) == ack.ack = seq + 1

\* recvfrom returned the datagram raw (lines 43-58)
SwOnDatagram(raw) ==
    \E ack \in {from_bytes(raw)} : \E isAck \in {~Malformed(raw) /\ ack.kind = ACK} :
        IF ~isAck
        THEN /\ SwTransmit(frame, metrics, Got(raw))
             /\ UNCHANGED <<seq, fpos>>
        ELSE IF SwAcked(ack)
        THEN /\ seq' = seq + 1
             /\ IF fin(frame)
                THEN /\ spc' = "returned"
                     /\ UNCHANGED <<frame, metrics, fpos, clock>>
                     /\ SenderSends(Got(raw), <<>>)
                ELSE /\ SwTransmit(SwNextFrame(seq + 1), metrics, Got(raw))
                     /\ fpos' = fpos + Len(read(fpos))
        ELSE /\ SwTransmit(frame, [metrics EXCEPT !.retransmits = Bump(@, 1)],
                        Got(raw))
             /\ UNCHANGED <<seq, fpos>>

----------------------------------------------------------------------------
(* The sender's steps on either network *)

SenderOnDatagram(raw) ==
    IF proto = "gbn"
    THEN GbnOnDatagram(raw) /\ UNCHANGED <<seq, frame>>
    ELSE SwOnDatagram(raw) /\ UNCHANGED <<base, next_seq, buffer, timer_start, eof_scheduled>>

\* what no step of the sender changes
SenderFrame ==
    /\ UNCHANGED <<net, proto, window_size, input, rpc, expected, out, anet,
                   written, codec>>
    /\ rlast' = NoArrival

\* sender.run() is called and runs up to its first recvfrom
SenderStart ==
    /\ \/ GbnStart /\ UNCHANGED <<seq, frame>>
       \/ SwStart /\ UNCHANGED <<base, next_seq, buffer, timer_start, eof_scheduled>>
    /\ UNCHANGED aq
    /\ SenderFrame

\* a datagram arrives from the lossy network
SenderRecv ==
    /\ net = "lossy"
    /\ spc = "wait"
    /\ \E raw \in Arrivals(anet, dnet) : SenderOnDatagram(raw)
    /\ UNCHANGED aq
    /\ SenderFrame

\* the next datagram of the FIFO network arrives
SenderRecvFifo ==
    /\ net = "fifo"
    /\ spc = "wait"
    /\ aq # <<>>
    /\ SenderOnDatagram(Head(aq))
    /\ aq' = Tail(aq)
    /\ SenderFrame

\* the receive call can expire: always on the lossy network; on the FIFO
\* network only when no datagram is on its way and none will be sent
CanExpire ==
    \/ net = "lossy"
    \/ aq = <<>> /\ (dq = <<>> \/ rpc # "RECEIVING")

\* self.udp.recvfrom() raises TimeoutError in the sender
SenderTimeout ==
    /\ spc = "wait"
    /\ CanExpire
    /\ IF proto = "gbn"
       THEN GbnOnTimeout /\ UNCHANGED <<seq, frame>>
       ELSE SwOnTimeout /\ UNCHANGED <<base, next_seq, buffer, timer_start, eof_scheduled>>
    /\ UNCHANGED aq
    /\ SenderFrame

\* a tick of the clock passes while the sender waits in recvfrom and
\* the receive call has not lasted timeout_ms yet
Tick ==
    /\ spc = "wait"
    /\ clock.waited < TimeoutMs
    /\ clock' = [elapsed |-> IF proto = "gbn" /\ timer_start # None
                             THEN Min(clock.elapsed + 1, TimeoutMs + MaxLate)
                             ELSE clock.elapsed,
                 waited |-> clock.waited + 1]
    /\ slast' = NoStep(slast.nth)
    /\ rlast' = NoArrival
    /\ UNCHANGED <<net, proto, window_size, input, fpos, spc, seq, frame, base,
                   next_seq, buffer, timer_start, eof_scheduled, metrics, rpc,
                   expected, out, dnet, anet, dq, aq, written, tx_count, fin_seqs,
                   codec>>

----------------------------------------------------------------------------
(* packet.py on its own: a Frame is encoded, the datagram is damaged or  *)
(* not, and the datagram is decoded                                       *)

\* the variables of a transfer
transfer == <<net, proto, window_size, input, fpos, spc, seq, frame, base, next_seq,
              buffer, timer_start, eof_scheduled, metrics, rpc, expected, out,
              dnet, anet, dq, aq, written, rlast, slast, tx_count, fin_seqs, clock>>

\* the place of a Frame where there is none
NoFrame == [version |-> 0, kind |-> 0, flags |-> 0, seq |-> 0, ack |-> 0, payload |-> <<>>]

\* codec before anything is encoded or decoded
NoCodec ==
    [frame |-> NoFrame, raw |-> NoDatagram,
     got |-> [done |-> FALSE, raised |-> FALSE, frame |-> NoFrame]]

\* the outcome of Frame.from_bytes(raw): ValueError raised, or the Frame
Decoded(raw) ==
    IF Malformed(raw)
    THEN [done |-> TRUE, raised |-> TRUE, frame |-> NoFrame]
    ELSE [done |-> TRUE, raised |-> FALSE, frame |-> from_bytes(raw)]

\* sequence and ack numbers that reach every byte of their fields
CodecSeqs == {0, 1, 256, 65537, 2147483647}

\* the payloads of up to SegmentSize bytes over two byte values
CodecPayloads == UNION {[1..k -> {0, 255}] : k \in 0..SegmentSize}

\* the frames Frame.data and Frame.make_ack build, and frames of another
\* version or of an unknown kind
CodecFrames ==
    {data(s, p, f) : s \in CodecSeqs, p \in CodecPayloads, f \in BOOLEAN}
    \cup {make_ack(a) : a \in CodecSeqs}
    \cup {[data(1, <<255>>, f) EXCEPT !.version = v] : v \in {0, 2, 255}, f \in BOOLEAN}
    \cup {[make_ack(1) EXCEPT !.kind = k] : k \in {2, 255}}

\* the datagram raw with any one bit of its header, of its digest or of
\* its payload flipped (a digest with bit b flipped is the digest followed
\* by b: it differs from the digest and from every other flip), and raw
\* cut to any shorter length
Damage(raw) ==
    {[raw EXCEPT !.header = FlipAt(@, p, i)] : p \in 1..HEADER_LEN, i \in 0..7}
    \cup {[raw EXCEPT !.checksum = Append(@, b)] : b \in 0..(SHA1_LEN * 8 - 1)}
    \cup {[raw EXCEPT !.payload = FlipAt(@, p, i)] : p \in 1..Len(raw.payload), i \in 0..7}
    \cup {Cut(raw, k) : k \in 0..(raw.len - 1)}

\* frame.to_bytes()
Encode ==
    /\ codec.raw = NoDatagram
    /\ codec' = [codec EXCEPT !.raw = to_bytes(codec.frame)]
    /\ UNCHANGED transfer

\* the datagram is damaged before it is decoded
Transit ==
    /\ codec.raw # NoDatagram
    /\ codec.raw = to_bytes(codec.frame)
    /\ ~codec.got.done
    /\ \E d \in Damage(codec.raw) : codec' = [codec EXCEPT !.raw = d]
    /\ UNCHANGED transfer

\* Frame.from_bytes(raw)
Decode ==
    /\ codec.raw # NoDatagram
    /\ ~codec.got.done
    /\ codec' = [codec EXCEPT !.got = Decoded(codec.raw)]
    /\ UNCHANGED transfer

----------------------------------------------------------------------------
(* Initial states and specifications *)

\* the file of length n whose bytes are 1, 2, ..., n; the protocol never
\* looks into a payload, and with all bytes different a lost, repeated or
\* misplaced segment shows in the output
File(n) == [i \in 1..n |-> i]

\* the state after the sender p and the receiver are constructed (the
\* locals of run() at their initial values) on the network n, with
\* window_size w and the file inp
Constructed(n, p, w, inp) ==
    /\ net = n
    /\ proto = p
    /\ window_size = w
    /\ input = inp
    /\ fpos = 0
    /\ spc = "init"
    /\ seq = 0
    /\ frame = data(0, <<>>, FALSE)
    /\ base = 0
    /\ next_seq = 0
    /\ buffer = <<>>
    /\ timer_start = None
    /\ eof_scheduled = FALSE
    /\ metrics = [packets_sent |-> 0, timeouts |-> 0, retransmits |-> 0]
    /\ rpc = "RECEIVING"
    /\ expected = 0
    /\ out = <<>>
    /\ dnet = {}
    /\ anet = {}
    /\ dq = <<>>
    /\ aq = <<>>
    /\ written = <<>>
    /\ rlast = NoArrival
    /\ slast = NoStep(0)
    /\ tx_count = 0
    /\ fin_seqs = {}
    /\ clock = [elapsed |-> 0, waited |-> 0]

\* the initial states of the transfers over the network n with the window
\* sizes 1..w (1 for SW) and the files of 0..l bytes
InitFor(n, w, l) ==
    /\ \E p \in {"sw", "gbn"} : \E ws \in 1..w : \E k \in 0..l :
          /\ p = "sw" => ws = 1
          /\ Constructed(n, p, ws, File(k))
    /\ codec = NoCodec

Init == InitFor("lossy", MaxWindow, MaxLen)

Next ==
    \/ SenderStart
    \/ SenderRecv
    \/ SenderTimeout
    \/ ReceiverRecv
    \/ ReceiverTimeout
    \/ ArriveAfterEnd

\* a transfer over the lossy network
Spec == Init /\ [][Next]_vars

InitLossless == InitFor("fifo", MaxWindowFifo, MaxSegmentsFifo * SegmentSize)

NextLossless ==
    \/ SenderStart
    \/ SenderRecvFifo
    \/ SenderTimeout
    \/ ReceiverRecvFifo

\* a transfer over the FIFO network; the sender's thread and the
\* receiver's thread both keep running
SpecLossless ==
    /\ InitLossless
    /\ [][NextLossless]_vars
    /\ WF_vars(SenderStart \/ SenderRecvFifo \/ SenderTimeout)
    /\ WF_vars(ReceiverRecvFifo)

InitTimed == InitFor("lossy", MaxWindowTimed, MaxLenTimed)

NextTimed ==
    \/ SenderStart
    \/ SenderRecv
    \/ SenderTimeout
    \/ ReceiverRecv
    \/ ReceiverTimeout
    \/ ArriveAfterEnd
    \/ Tick

\* a transfer over the lossy network with the time of the sender's waits
SpecTimed == InitTimed /\ [][NextTimed]_vars

InitCodec ==
    /\ Constructed("none", "sw", 1, <<>>)
    /\ codec \in {[NoCodec EXCEPT !.frame = f] : f \in CodecFrames}

NextCodec ==
    \/ Encode
    \/ Transit
    \/ Decode

\* the codec applied to one frame
SpecCodec == InitCodec /\ [][NextCodec]_vars

----------------------------------------------------------------------------
(* Properties *)

IsPrefix(a, b) == Len(a) <= Len(b) /\ a = SubSeq(b, 1, Len(a))

\* the last datagram that arrived at the receiver decodes to a DATA frame
LastIsData == ~Malformed(rlast.raw) /\ from_bytes(rlast.raw).kind = DATA

\* this step is the arrival of a datagram at the receiver
ArrivalStep == rlast'.raw # NoDatagram

\* this step is a step of the sender
SenderStep == slast'.ev # "none"

\* the number of segments of the input, which is the sequence number of
\* the frame that carries FIN after them
LastSeq == (Len(input) + SegmentSize - 1) \div SegmentSize

\* C1: once the receiver's loop has ended by its break, the bytes written
\* are the sender's input; before that they are a prefix of the input.
C1_OutputIsInput ==
    /\ IsPrefix(out, input)
    /\ rpc = "DONE" => out = input

\* a GBN transfer of three segments that needed a timeout has ended
C1_Witness ==
    /\ proto = "gbn"
    /\ rpc = "DONE"
    /\ Len(input) > SegmentSize
    /\ metrics.timeouts > 0
    /\ out = input

\* C2: every transfer completes: eventually the receiver has left its
\* loop by the break and the sender's run() has returned.
C2_Completes == <>(rpc = "DONE" /\ spc = "returned")

\* C3: over the FIFO network, with window_size 4 and an input of 10 full
\* segments, the GBN sender makes 11 sendto calls, one of them with FIN,
\* and returns with no retransmit, no timeout and the output equal to
\* the input.
C3_LosslessGbn ==
    (proto = "gbn" /\ window_size = 4 /\ Len(input) = 10 * SegmentSize)
    => /\ [](tx_count <= 11 /\ Cardinality(fin_seqs) <= 1)
       /\ <>(/\ spc = "returned"
             /\ tx_count = 11
             /\ fin_seqs = {10}
             /\ metrics.retransmits = 0
             /\ metrics.timeouts = 0
             /\ out = input)

\* C4: one sequence number at most is transmitted with FIN, it is the
\* highest one transmitted, and once the GBN sender has loaded the FIN
\* frame next_seq stays at the FIN's sequence number + 1.
C4_OneFin ==
    /\ Cardinality(fin_seqs) <= 1
    /\ \A f \in fin_seqs : \A m \in dnet : from_bytes(m).seq <= f
    /\ (proto = "gbn" /\ eof_scheduled) => \A f \in fin_seqs : next_seq <= f + 1

\* C5: the receiver writes a payload only for a DATA frame whose seq is
\* expected when it is handled, so the payloads written are those of
\* 0, 1, 2, ... in this order, each once.
C5_WritesInOrder ==
    /\ rlast.wrote => (LastIsData /\ from_bytes(rlast.raw).seq = rlast.before)
    /\ written = [i \in 1..Len(written) |-> i - 1]

\* the receiver has written two payloads and then got a frame it did
\* not write
C5_Witness ==
    /\ Len(written) = 2
    /\ rlast.read
    /\ LastIsData
    /\ ~rlast.wrote

\* C6: for every DATA frame the loop handles it sends one ACK, whose ack
\* is expected after the frame: one more than before if the frame's seq
\* was expected, the same as before otherwise.
C6_OneAckOfExpected ==
    (rlast.read /\ LastIsData)
    => /\ Len(rlast.sent) = 1
       /\ ~Malformed(rlast.sent[1])
       /\ from_bytes(rlast.sent[1]).kind = ACK
       /\ from_bytes(rlast.sent[1]).ack = expected
       /\ expected = IF from_bytes(rlast.raw).seq = rlast.before
                     THEN rlast.before + 1 ELSE rlast.before

\* the loop has handled a frame that was not the expected one, after
\* having accepted others
C6_Witness ==
    /\ rlast.read
    /\ LastIsData
    /\ from_bytes(rlast.raw).seq # rlast.before
    /\ expected >= 2

\* C7: an ACK the receiver sends never carries a smaller ack than an ACK
\* it sent before.
C7_AcksMonotone ==
    [][\A i \in 1..Len(rlast'.sent) : \A m \in anet :
          from_bytes(rlast'.sent[i]).ack >= from_bytes(m).ack]_vars

\* the receiver has sent three different ACKs and answers a duplicate
C7_Witness ==
    /\ Cardinality(anet) >= 3
    /\ rlast.read
    /\ LastIsData
    /\ from_bytes(rlast.raw).seq < rlast.before

\* C8 as claimed: when the frame the receiver has just written arrives
\* again, nothing is written and a second ACK equal to the first is sent.
C8_TwiceTwoAcks ==
    [][(ArrivalStep /\ rlast.wrote /\ rlast'.raw = rlast.raw)
       => /\ out' = out
          /\ Len(rlast'.sent) = 1
          /\ rlast'.sent = rlast.sent]_vars

\* C8 amended: when the frame the receiver has just written arrives again
\* nothing is written; if the loop is still running a second ACK equal to
\* the first is sent; a frame with FIN has ended the loop, its second
\* copy is not read and no ACK is sent for it.
C8_TwiceOneWrite ==
    [][(ArrivalStep /\ rlast.wrote /\ rlast'.raw = rlast.raw)
       => /\ out' = out
          /\ written' = written
          /\ rpc = "RECEIVING" => (Len(rlast'.sent) = 1 /\ rlast'.sent = rlast.sent)
          /\ fin(from_bytes(rlast.raw)) => (rpc = "DONE" /\ ~rlast'.read /\ rlast'.sent = <<>>)]_vars

\* a frame without FIN was written and its second copy was handled
C8_Witness ==
    /\ rlast.read
    /\ LastIsData
    /\ ~rlast.wrote
    /\ ~fin(from_bytes(rlast.raw))
    /\ from_bytes(rlast.raw).seq = rlast.before - 1
    /\ rlast.sent = <<to_bytes(make_ack(rlast.before))>>

\* C9: a DATA frame with seq > expected, with or without FIN, is not
\* written, leaves expected as it is, does not end the loop and is
\* answered by an ACK of the unchanged expected.
C9_AheadIsNotAccepted ==
    [][(ArrivalStep /\ rlast'.read /\ ~Malformed(rlast'.raw)
        /\ from_bytes(rlast'.raw).kind = DATA
        /\ from_bytes(rlast'.raw).seq > expected)
       => /\ out' = out
          /\ written' = written
          /\ expected' = expected
          /\ rpc' = "RECEIVING"
          /\ rlast'.sent = <<to_bytes(make_ack(expected))>>]_vars

\* the loop has handled a FIN frame that was ahead of expected
C9_Witness ==
    /\ rlast.read
    /\ LastIsData
    /\ fin(from_bytes(rlast.raw))
    /\ from_bytes(rlast.raw).seq > rlast.before
    /\ rpc = "RECEIVING"

\* C10: base <= next_seq and next_seq - base <= window_size, whenever the
\* sender waits and also inside a step: an ACK never moves base past
\* next_seq as it was before the window is filled again.
C10_WindowBound ==
    /\ base <= next_seq
    /\ next_seq - base <= window_size
    /\ [][/\ base' <= next_seq
          /\ base' <= next_seq'
          /\ next_seq' - base' <= window_size]_vars

\* the window is full again after an ACK moved base and a timeout
\* retransmitted
C10_Witness ==
    /\ proto = "gbn"
    /\ spc = "wait"
    /\ base >= 2
    /\ next_seq - base = window_size
    /\ window_size >= 2
    /\ metrics.timeouts > 0

\* C11: run() of the sender has returned only if the FIN frame was
\* transmitted, at the sequence number after the last segment and at no
\* other, and every frame up to it is acknowledged (GBN: eof_scheduled and
\* base = next_seq = that number + 1; SW: seq = that number + 1); the
\* receiver has then left its loop by the break with the whole input
\* written.
C11_ReturnsWhenDelivered ==
    spc = "returned"
    => /\ fin_seqs = {LastSeq}
       /\ proto = "gbn" => (eof_scheduled /\ base = next_seq /\ base = LastSeq + 1)
       /\ proto = "sw" => (fin(frame) /\ seq = LastSeq + 1)
       /\ expected = LastSeq + 1
       /\ rpc = "DONE"
       /\ out = input

\* a GBN sender with a window of two or more has returned after a
\* transfer of two segments that needed a timeout
C11_Witness ==
    /\ spc = "returned"
    /\ proto = "gbn"
    /\ window_size >= 2
    /\ LastSeq = 2
    /\ metrics.timeouts > 0

\* the datagram raw fails decoding or is a well-formed frame of kind ACK
NotForReceiver(raw) == Malformed(raw) \/ from_bytes(raw).kind = ACK

\* C12: a datagram that does not decode (too short, digest mismatch,
\* other version, unknown kind) and a well-formed ACK frame are dropped by
\* the receiver: no ACK, no write, expected unchanged, the loop goes on;
\* and when the intact frame with seq = expected arrives right after such
\* a datagram it is written and acknowledged as usual.
C12_DiscardsSilently ==
    /\ [][(ArrivalStep /\ rlast'.read /\ NotForReceiver(rlast'.raw))
          => /\ out' = out
             /\ written' = written
             /\ expected' = expected
             /\ anet' = anet
             /\ aq' = aq
             /\ rlast'.sent = <<>>
             /\ rpc' = "RECEIVING"]_vars
    /\ [][(ArrivalStep /\ rlast.read /\ NotForReceiver(rlast.raw)
           /\ rlast'.read /\ ~NotForReceiver(rlast'.raw)
           /\ from_bytes(rlast'.raw).seq = expected)
          => /\ out' = out \o rlast'.raw.payload
             /\ expected' = expected + 1
             /\ rlast'.sent = <<to_bytes(make_ack(expected + 1))>>]_vars

\* the loop has dropped a copy, with a flipped payload bit, of the frame
\* it waits for, after having accepted another frame
C12_Witness ==
    /\ rlast.read
    /\ rlast.raw.len >= HEADER_LEN + SHA1_LEN
    /\ rlast.raw.payload # <<>>
    /\ sha1(rlast.raw.header, rlast.raw.payload) # rlast.raw.checksum
    /\ from_bytes(rlast.raw).seq = expected
    /\ expected >= 1
    /\ rlast.sent = <<>>
    /\ rpc = "RECEIVING"

\* C13: the receiver's loop ends only in the pass that accepts the frame
\* with FIN, never because its receive call expired: an expiry leaves the
\* receiver in RECEIVING.
C13_LeavesOnlyByFin ==
    [][(rpc = "RECEIVING" /\ rpc' # "RECEIVING")
       => /\ rpc' = "DONE"
          /\ ArrivalStep
          /\ rlast'.wrote
          /\ fin(from_bytes(rlast'.raw))]_vars

\* C14: a well-formed ACK with ack <= base that reaches a GBN sender with
\* outstanding frames changes nothing: base, next_seq, the buffer and the
\* reading in timer_start are the same at the next wait, and the step
\* transmits no frame.
C14_StaleAckChangesNothing ==
    [][(SenderStep /\ proto = "gbn" /\ slast'.ev = "ack"
        /\ slast'.ack <= base /\ base < next_seq)
       => /\ base' = base
          /\ next_seq' = next_seq
          /\ buffer' = buffer
          /\ timer_start' = Aged(timer_start)
          /\ slast'.sent = <<>>]_vars

\* the frame the claim C15 gives the sequence number k: the bytes
\* [k*s, min((k+1)*s, L)) of the input and no FIN for k below the number
\* of segments, an empty payload and FIN for k equal to it
SegmentFrame(k) ==
    data(k, SubSeq(input, k * SegmentSize + 1, Min((k + 1) * SegmentSize, Len(input))),
         k = LastSeq)

\* C15: over the FIFO network the SW sender makes n + 1 sendto calls, the
\* k-th of them (from 0) with the frame of seq k as the claim describes
\* it, the last one being the empty FIN frame of seq n; every datagram it
\* receives is an ACK, the k-th of them with ack k; it returns with no
\* timeout and no retransmit and the receiver has written the L bytes of
\* the input.
C15_LosslessSw ==
    /\ [][(SenderStep /\ proto = "sw")
          => /\ slast'.sent \in {<<>>, <<to_bytes(SegmentFrame(tx_count))>>}
             /\ slast'.ev # "start"
                => (slast'.ev = "ack" /\ slast'.ack = seq + 1 /\ seq' = seq + 1)]_vars
    /\ [](proto = "sw"
          => /\ tx_count <= LastSeq + 1
             /\ metrics.timeouts = 0
             /\ metrics.retransmits = 0)
    /\ <>(proto = "sw"
          => /\ spc = "returned"
             /\ tx_count = LastSeq + 1
             /\ seq = LastSeq + 1
             /\ fin_seqs = {LastSeq}
             /\ rpc = "DONE"
             /\ out = input)

\* the SW sender has returned from the transfer of five bytes, four
\* frames, over the FIFO network
C15_Witness ==
    /\ net = "fifo"
    /\ proto = "sw"
    /\ spc = "returned"
    /\ Len(input) = 2 * SegmentSize + 1
    /\ tx_count = 4
    /\ seq = 4
    /\ Len(out) = Len(input)

\* C16: for every frame built by Frame.data or Frame.make_ack, decoding
\* the datagram to_bytes made of it raises nothing and gives a frame of the
\* same kind, seq, ack, FIN flag and payload (an empty one for an ACK).
C16_RoundTrip ==
    (/\ codec.got.done
     /\ codec.raw = to_bytes(codec.frame)
     /\ codec.frame.version = VERSION
     /\ codec.frame.kind \in {DATA, ACK})
    => /\ ~codec.got.raised
       /\ codec.got.frame.kind = codec.frame.kind
       /\ codec.got.frame.seq = codec.frame.seq
       /\ codec.got.frame.ack = codec.frame.ack
       /\ fin(codec.got.frame) = fin(codec.frame)
       /\ codec.got.frame.payload = codec.frame.payload
       /\ codec.frame.kind = ACK => codec.got.frame.payload = <<>>

\* a DATA frame with FIN, a full payload and a seq that fills three bytes
\* of its field has gone through to_bytes and from_bytes
C16_Witness ==
    /\ codec.got.done
    /\ ~codec.got.raised
    /\ codec.frame.kind = DATA
    /\ codec.frame.seq = 65537
    /\ fin(codec.frame)
    /\ Len(codec.frame.payload) = SegmentSize
    /\ codec.got.frame = codec.frame

\* C17: from_bytes raises ValueError and gives no frame when the datagram
\* is shorter than 32 bytes, when it differs from the encoded frame in a
\* bit of the header, of the digest or of the payload, when the frame's
\* version is not 1 and when its kind is neither DATA nor ACK; a frame it
\* gives has a digest that verifies and the version 1.
C17_DecodeFails ==
    codec.got.done
    => /\ codec.raw.len < 32 => codec.got.raised
       /\ codec.raw # to_bytes(codec.frame) => codec.got.raised
       /\ codec.frame.version # 1 => codec.got.raised
       /\ codec.frame.kind \notin {DATA, ACK} => codec.got.raised
       /\ codec.got.raised => codec.got.frame = NoFrame
       /\ ~codec.got.raised
          => /\ codec.raw.checksum = sha1(codec.raw.header, codec.raw.payload)
             /\ codec.got.frame.version = 1

\* from_bytes has raised for a datagram of full length that differs from
\* the encoded DATA frame in one bit of the seq field only
C17_Witness ==
    /\ codec.got.done
    /\ codec.got.raised
    /\ codec.frame.version = VERSION
    /\ codec.frame.kind = DATA
    /\ codec.raw.len = to_bytes(codec.frame).len
    /\ codec.raw.payload = codec.frame.payload
    /\ codec.raw.checksum = to_bytes(codec.frame).checksum
    /\ \E p \in 5..8 : \E i \in 0..7 :
          codec.raw.header = FlipAt(to_bytes(codec.frame).header, p, i)

\* C18: when recvfrom of the GBN sender expires with timer_start set, the
\* step adds one to timeouts, sends the buffered frames of base..next_seq-1
\* once each in ascending order and nothing else, sets timer_start to the
\* current reading and leaves base, next_seq and the buffer as they were.
C18_TimeoutResendsWindow ==
    [][(SenderStep /\ proto = "gbn" /\ slast'.ev = "timeout" /\ timer_start # None)
       => /\ metrics'.timeouts = Bump(metrics.timeouts, 1)
          /\ slast'.sent = [i \in 1..(next_seq - base) |-> to_bytes(buffer[base + i - 1])]
          /\ timer_start' = Now
          /\ base' = base
          /\ next_seq' = next_seq
          /\ buffer' = buffer]_vars

\* C19: a well-formed ACK with ack > base that reaches the GBN sender
\* moves base to ack and removes from the buffer the entries with key <
\* ack and no other; the ACK does not change next_seq, which grows only
\* by the frames the step then sends, and these are the only new entries
\* of the buffer; timer_start is absent afterwards if the ACK covered
\* every frame sent and the step sent none, and a current reading otherwise.
C19_AckAdvances ==
    [][(SenderStep /\ proto = "gbn" /\ slast'.ev = "ack" /\ slast'.ack > base)
       => /\ base' = slast'.ack
          /\ \A k \in DOMAIN buffer :
                IF k < slast'.ack
                THEN k \notin DOMAIN buffer'
                ELSE k \in DOMAIN buffer' /\ buffer'[k] = buffer[k]
          /\ \A k \in DOMAIN buffer' \ DOMAIN buffer : k >= next_seq /\ k < next_seq'
          /\ next_seq' = next_seq + Len(slast'.sent)
          /\ timer_start' = IF slast'.ack = next_seq /\ slast'.sent = <<>>
                            THEN None ELSE Now]_vars

\* an ACK has moved base to 2 or more and left frames outstanding, with
\* the buffer holding exactly these
C19_Witness ==
    /\ proto = "gbn"
    /\ spc = "wait"
    /\ slast.ev = "ack"
    /\ slast.ack = base
    /\ base >= 2
    /\ base < next_seq
    /\ DOMAIN buffer = base..(next_seq - 1)
    /\ timer_start = Now

\* C20: in every state of the GBN sender the keys of the buffer are the
\* sequence numbers base..next_seq-1, so there are at most window_size of
\* them, and the retransmission after a timeout never raises KeyError.
C20_BufferIsWindow ==
    proto = "gbn"
    => /\ DOMAIN buffer = base..(next_seq - 1)
       /\ Cardinality(DOMAIN buffer) <= window_size
       /\ spc # "raised"

\* the GBN sender waits with a full buffer of two or more frames after an
\* ACK moved base and a timeout retransmitted
C20_Witness ==
    /\ proto = "gbn"
    /\ spc = "wait"
    /\ base >= 1
    /\ window_size >= 2
    /\ Cardinality(DOMAIN buffer) = window_size
    /\ metrics.retransmits > 0

\* C21: a datagram that fails decoding and a well-formed frame that is not
\* an ACK are discarded by the GBN sender: base, next_seq, the buffer and
\* the reading in timer_start are the same at the next wait, and the step
\* transmits no frame.
C21_DiscardChangesNothing ==
    [][(SenderStep /\ proto = "gbn" /\ slast'.ev \in {"malformed", "nonack"})
       => /\ base' = base
          /\ next_seq' = next_seq
          /\ buffer' = buffer
          /\ timer_start' = Aged(timer_start)
          /\ slast'.sent = <<>>]_vars


\* C22: while the GBN sender waits with timer_start set, no more than
\* timeout_ms has passed since timer_start was read: the window is
\* retransmitted, or an ACK restarts the timer, before that.
C22_ResendsInTime ==
    (proto = "gbn" /\ spc = "wait" /\ timer_start # None)
    => clock.elapsed <= TimeoutMs

\* C23: in every state of the GBN sender, and so whenever it waits for a
\* datagram, timer_start is absent exactly when base = next_seq and set
\* when base < next_seq.
C23_TimerIffOutstanding ==
    proto = "gbn"
    => /\ (timer_start = None) <=> (base = next_seq)
       /\ base < next_seq => timer_start # None

\* the GBN sender waits with the timer set in the step in which an ACK
\* covered every frame sent and the window was filled again
C23_Witness ==
    /\ proto = "gbn"
    /\ spc = "wait"
    /\ slast.ev = "ack"
    /\ slast.ack = base
    /\ base >= 1
    /\ Len(slast.sent) = next_seq - base
    /\ base < next_seq
    /\ timer_start = Now

\* C24: a step of the SW sender adds one to seq if it began with a
\* well-formed ACK whose ack is seq + 1 and leaves seq as it is otherwise;
\* a step that began with TimeoutError adds one to timeouts and one to
\* retransmits and sends the same frame again; a step that began with a
\* well-formed ACK of another ack value adds one to retransmits only and
\* sends the same frame again; whatever the counters are, the sender goes
\* on waiting: run() ends only by the ACK of the FIN frame and raises
\* nothing.
C24_SwSteps ==
    [][(SenderStep /\ proto = "sw" /\ slast'.ev # "start")
       => /\ seq' = IF slast'.ev = "ack" /\ slast'.ack = seq + 1 THEN seq + 1 ELSE seq
          /\ slast'.ev = "timeout"
             => /\ metrics'.timeouts = Bump(metrics.timeouts, 1)
                /\ metrics'.retransmits = Bump(metrics.retransmits, 1)
                /\ frame' = frame
                /\ slast'.sent = <<to_bytes(frame)>>
          /\ (slast'.ev = "ack" /\ slast'.ack # seq + 1)
             => /\ metrics'.timeouts = metrics.timeouts
                /\ metrics'.retransmits = Bump(metrics.retransmits, 1)
                /\ frame' = frame
                /\ slast'.sent = <<to_bytes(frame)>>
          /\ spc' = IF slast'.ev = "ack" /\ slast'.ack = seq + 1 /\ fin(frame)
                    THEN "returned" ELSE "wait"]_vars

\* the SW sender has sent its second frame again after TimeoutError, with
\* its counters at the highest value tracked
C24_Witness ==
    /\ proto = "sw"
    /\ spc = "wait"
    /\ seq = 1
    /\ slast.ev = "timeout"
    /\ slast.sent = <<to_bytes(frame)>>
    /\ metrics.timeouts = MaxCount
    /\ metrics.retransmits = MaxCount
    /\ tx_count = MaxCount

\* C25: the pass of the receiver's loop for a datagram ends in DONE
\* exactly when the datagram is a well-formed DATA frame with FIN whose
\* seq is expected; the step that moves the receiver from RECEIVING to
\* DONE has written that frame and sent the ACK of its seq + 1; and once
\* in DONE the receiver stays there, sends nothing and writes nothing.
C25_DoneByFin ==
    /\ [][(ArrivalStep /\ rlast'.read)
          => (rpc' = "DONE") = (/\ ~NotForReceiver(rlast'.raw)
                                /\ fin(from_bytes(rlast'.raw))
                                /\ from_bytes(rlast'.raw).seq = expected)]_vars
    /\ [][(rpc = "RECEIVING" /\ rpc' = "DONE")
          => /\ ArrivalStep
             /\ rlast'.read
             /\ rlast'.wrote
             /\ rlast'.sent = <<to_bytes(make_ack(from_bytes(rlast'.raw).seq + 1))>>
             /\ rlast'.sent[1] \in anet']_vars
    /\ [][rpc = "DONE"
          => /\ rpc' = "DONE"
             /\ out' = out
             /\ written' = written
             /\ expected' = expected
             /\ anet' = anet
             /\ aq' = aq
             /\ rlast'.sent = <<>>]_vars

\* a datagram has arrived after the receiver ended its loop by the FIN
\* frame of seq 2, and was not read
C25_Witness ==
    /\ rpc = "DONE"
    /\ expected = 3
    /\ rlast.raw # NoDatagram
    /\ ~rlast.read
    /\ rlast.sent = <<>>
    /\ to_bytes(make_ack(3)) \in anet

\* the sequence numbers of the frames the sender has handed to sendto
SeqsSent == {from_bytes(m).seq : m \in dnet}

\* the sequence number of the i-th sendto call of the sender's last step
SentSeq(i) == from_bytes(slast'.sent[i]).seq

\* C26 as claimed: every sendto call of the sender carries a sequence
\* number higher than that of every call before it.
C26_StrictlyAscending ==
    [][SenderStep
       => \A i \in 1..Len(slast'.sent) :
             /\ \A n \in SeqsSent : SentSeq(i) > n
             /\ i > 1 => SentSeq(i) > SentSeq(i - 1)]_vars

\* C26 amended: the sequence numbers sent for the first time are 0, 1,
\* 2, ... in this order, and the sendto calls between two waits carry
\* consecutive ascending numbers, starting at a number sent before (a
\* retransmission) or at the lowest one not sent yet.
C26_FirstSendsAscending ==
    /\ [](SeqsSent = 0..(Cardinality(SeqsSent) - 1))
    /\ [][SenderStep
          => \A i \in 1..Len(slast'.sent) :
                /\ i = 1 => SentSeq(i) <= Cardinality(SeqsSent)
                /\ i > 1 => SentSeq(i) = SentSeq(i - 1) + 1]_vars

\* after TimeoutError the GBN sender has sent two or more frames again,
\* the first of them not the first of the transfer
C26_Witness ==
    /\ proto = "gbn"
    /\ slast.ev = "timeout"
    /\ Len(slast.sent) >= 2
    /\ base >= 1
    /\ from_bytes(slast.sent[1]).seq = base
    /\ from_bytes(slast.sent[2]).seq = base + 1

\* C27: the receiver's expected lies between what the sender knows to be
\* acknowledged and what it has sent: base <= expected <= next_seq for
\* GBN, seq <= expected <= seq + 1 for SW; so every well-formed ACK that
\* reaches the sender has ack <= next_seq (SW: ack <= seq + 1), and an ACK
\* never moves base past next_seq.
C27_ExpectedInWindow ==
    /\ [](proto = "gbn" => (base <= expected /\ expected <= next_seq))
    /\ [](proto = "sw" => (seq <= expected /\ expected <= seq + 1))
    /\ [][(SenderStep /\ slast'.ev = "ack")
          => /\ proto = "gbn" => (slast'.ack <= next_seq /\ base' <= next_seq)
             /\ proto = "sw" => slast'.ack <= seq + 1]_vars

\* an ACK has moved base of the GBN sender to 1 or more while the
\* receiver has accepted more than is acknowledged and less than is sent
C27_Witness ==
    /\ proto = "gbn"
    /\ spc = "wait"
    /\ slast.ev = "ack"
    /\ slast.ack = base
    /\ base >= 1
    /\ base < expected
    /\ expected < next_seq

====
